---- MODULE Spec2Model ----
(***************************************************************************)
(* Model of the useGoogleAutocompleteSuggestions React hook (the generic   *)
(* version with a caller-supplied field mapping and address consumer), of  *)
(* the App component that wires it to a reducer, and of the place-to-      *)
(* address mappers of the repository.                                      *)
(*                                                                         *)
(* One hook instance is modelled.  A render of the hook reads              *)
(* serviceRef.current into placeServices; the closures created by that     *)
(* render (the debounce timer callback, processResults, getPlace) keep     *)
(* that value.  serviceRef.current is a ref: assigning it (initService)    *)
(* causes no render.                                                       *)
(***************************************************************************)
EXTENDS Integers, Sequences, FiniteSets, TLC

----------------------------------------------------------------------------
(* Bounds of the model *)

\* longest input text typed
MaxLen == 2

\* largest minLength option tried (the option is drawn from 0..MaxMinLength)
MaxMinLength == 1

\* the debounce option, in clock ticks
DebounceTicks == 2

\* predict requests issued in one run
MaxRequests == 2

\* getDetails requests issued in one run
MaxDetails == 2

\* longest address_components list handed to a mapper on its own
MaxComponents == 2
\* calls of the adapter (getPlacePredictions and getDetails together) in a
\* behaviour of the specification of all the handlers
MaxCalls == 2

\* instances of the hook on the page besides the one the hook variables
\* describe
MaxOtherInstances == 2

----------------------------------------------------------------------------
(* Values *)

\* the letters of an input text (the code reads only the length and the
\* identity of a text)
Alphabet == {"a"}

\* the texts a user may type: all strings over Alphabet of length <= MaxLen
Texts == UNION {[1..n -> Alphabet] : n \in 0..MaxLen}

\* JavaScript null (the initial value of serviceRef.current, a details
\* callback's place when the lookup failed)
Null == [isNull |-> TRUE]

\* window.google.maps.places.PlacesServiceStatus.OK
StatusOK == "OK"

\* the statuses a callback of the places library may carry
Statuses == {StatusOK, "ZERO_RESULTS"}

\* the object initService stores in serviceRef.current
Services == [statusOK |-> StatusOK]

\* the further instances of the hook on the page
OtherInstances == 1..MaxOtherInstances

\* the API keys tried: absent (empty string) and present
Keys == {"", "KEY"}

PlaceIds == {"p1", "p2"}

\* a raw PlaceAutocompleteResult
RawPrediction(id) == [place_id |-> id, description |-> id, reference |-> "ref"]

\* the result lists a predict response may carry
ResultLists == {<<>>, <<RawPrediction("p1")>>,
                <<RawPrediction("p2"), RawPrediction("p1")>>}


----------------------------------------------------------------------------
(* The mappers *)

AddressFields == {"house", "street", "city", "state", "zip"}

\* addressFieldsMapping of the App: type label -> {nameForm, resultField}
addressFieldsMapping ==
  [street_number |-> [nameForm |-> "short_name", resultField |-> "house"],
   route |-> [nameForm |-> "short_name", resultField |-> "street"],
   locality |-> [nameForm |-> "long_name", resultField |-> "city"],
   administrative_area_level_1 |-> [nameForm |-> "short_name", resultField |-> "state"],
   postal_code |-> [nameForm |-> "short_name", resultField |-> "zip"]]

\* a mapping in which two labels share a result field
sharedFieldMapping ==
  [street_number |-> [nameForm |-> "short_name", resultField |-> "house"],
   premise |-> [nameForm |-> "long_name", resultField |-> "house"],
   route |-> [nameForm |-> "long_name", resultField |-> "street"]]

Mappings == {addressFieldsMapping, sharedFieldMapping}

\* the fields a mapping names
TargetFields(mapping) == {mapping[l].resultField : l \in DOMAIN mapping}

\* the empty object {}
EmptyObject == [f \in {} |-> ""]

\* JavaScript undefined, as the value of types[0] of an empty types array
Undefined == "undefined"

\* mutant: the last type label is looked up
LastComponentType(addressComponent) ==
  IF Len(addressComponent.types) = 0 THEN Undefined
  ELSE addressComponent.types[Len(addressComponent.types)]

\* addressComponent.types[0]
ComponentType(addressComponent) ==
  IF Len(addressComponent.types) = 0 THEN Undefined
  ELSE addressComponent.types[1]

\* `${addressComponent[nameForm]}`: the template literal of a string is
\* that string (short_name and long_name are strings in AddressComponent)
TemplateLiteral(addressComponent, nameForm) ==
  IF nameForm = "short_name" THEN addressComponent.short_name
  ELSE addressComponent.long_name

\* mutant: a field already written keeps its value
SpreadKeepFirst(result, resultField, value) ==
  [f \in (DOMAIN result) \cup {resultField} |->
     IF f \in DOMAIN result THEN result[f] ELSE value]

\* { ...result, [resultField]: value }
Spread(result, resultField, value) ==
  [f \in (DOMAIN result) \cup {resultField} |->
     IF f = resultField THEN value ELSE result[f]]

\* the reducer callback of mappingPlaceToAddress
MappingReducer(mapping, result, addressComponent) ==
  LET addressComponentType == ComponentType(addressComponent)
  IN IF addressComponentType \notin DOMAIN mapping THEN result
     ELSE Spread(result, mapping[addressComponentType].resultField,
                 TemplateLiteral(addressComponent, mapping[addressComponentType].nameForm))

RECURSIVE Reduce(_, _, _)
\* Array.prototype.reduce over address_components with MappingReducer
Reduce(mapping, result, components) ==
  IF components = <<>> THEN result
  ELSE Reduce(mapping, MappingReducer(mapping, result, Head(components)), Tail(components))

\* place.address_components can be read: place is an object that has it
HasComponents(place) == "address_components" \in DOMAIN place

\* mappingPlaceToAddress(mapping)(place), for a place whose components can
\* be read: the reduce starts from {}
mappingPlaceToAddress(mapping, place) ==
  Reduce(mapping, EmptyObject, place.address_components)

\* convertPlaceToAddress of App.jsx: the loop over the components with the
\* fixed mapping, then every result field that is missing or empty is set
\* to ''
convertPlaceToAddressJsx(place) ==
  LET looped == Reduce(addressFieldsMapping, EmptyObject, place.address_components)
  IN [f \in TargetFields(addressFieldsMapping) |->
        IF f \in DOMAIN looped THEN looped[f] ELSE ""]

\* mutant: the reducer resets the fields newValues does not have
updateAddressReset(state, newValues) ==
  [f \in (DOMAIN state) \cup (DOMAIN newValues) |->
     IF f \in DOMAIN newValues THEN newValues[f] ELSE ""]

\* the reducer of the App: (state, newValues) => ({...state, ...newValues})
updateAddress(state, newValues) ==
  [f \in (DOMAIN state) \cup (DOMAIN newValues) |->
     IF f \in DOMAIN newValues THEN newValues[f] ELSE state[f]]

\* the initial reducer state of the App
InitialAddress == [f \in AddressFields |-> ""]

----------------------------------------------------------------------------
(* Inputs of the mapper specification *)

TypeLists == {<<>>, <<"street_number">>, <<"route">>, <<"premise">>,
              <<"premise", "route">>, <<"route", "street_number">>,
              <<"locality", "premise">>}

NamePairs == {[short_name |-> "221B", long_name |-> "221B Long"],
              [short_name |-> "Baker St", long_name |-> "Baker Street"]}

Components == {[types |-> t, short_name |-> n.short_name, long_name |-> n.long_name] :
                 t \in TypeLists, n \in NamePairs}

ComponentLists == UNION {[1..n -> Components] : n \in 0..MaxComponents}

----------------------------------------------------------------------------
(* The places a details response may carry in the hook specification *)

PlaceA == [address_components |->
             << [types |-> <<"street_number">>, short_name |-> "221B", long_name |-> "221B Long"],
                [types |-> <<"route", "premise">>, short_name |-> "Baker St", long_name |-> "Baker Street"] >>]

PlaceB == [address_components |->
             << [types |-> <<"locality", "political">>, short_name |-> "LDN", long_name |-> "London"] >>]

\* a place record without address_components
PlaceBare == [name |-> "bare"]

\* the first argument of a getDetails callback
DetailsPlaces == {Null, PlaceBare, PlaceA, PlaceB}

----------------------------------------------------------------------------
(* State *)

VARIABLES
  key,              \* option key: the API key ("" when absent)
  minLength,        \* option minLength
  google,           \* window.google.maps.places is defined
  script,           \* the script element of this instance: "none", "loading", "loaded"
  serviceRef,       \* serviceRef.current
  placeServices,    \* placeServices as read by the latest render
  input,            \* React state input
  suggestions,      \* React state suggestions
  timers,           \* pending setTimeout callbacks, each with the closure of its render
  predictInFlight,  \* getPlacePredictions calls whose callback has not run
  issued,           \* number of getPlacePredictions calls made
  newestResolved,   \* history: the latest issued request that resolved with StatusOK
  detailsInFlight,  \* getDetails calls whose callback has not run
  detailsIssued,    \* number of getDetails calls made
  cbLog,            \* the calls of cb, in order: the status of the response and the address passed
  address,          \* the reducer state of the App
  raised,           \* a callback ended in a TypeError
  mounted,          \* the component is mounted
  lastOp,           \* the handler that ran last
  sinceCall,        \* history: ticks since the latest setInput call, capped at DebounceTicks
  burstReqs,        \* history: requests issued since the first call of the current burst
  runReqs,          \* history: requests issued since the first call of the current run
  runCalls,         \* history: calls of the current run, capped at 2
  runValid,         \* history: the latest call changed the input (it belongs to a run)
  inputChanges,     \* history: setInput calls that changed the input, capped at MaxRequests
  changedSinceRequest, \* history: a setInput call changed the input since the latest request
  mComponents,      \* mapper specification: the component list
  mMapping,         \* mapper specification: the field mapping
  mResult,          \* mapper specification: the result of mappingPlaceToAddress
  mResultJsx,       \* mapper specification: the result of convertPlaceToAddress of App.jsx
  mpc,              \* mapper specification: "start", "done", or "off"
  oLive,            \* further instances of the hook on the page: "new", "mounted", "unmounted"
  oScript,          \* further instances: the script element of each, as script
  oRef              \* further instances: serviceRef.current of each

hookVars == <<key, minLength, google, script, serviceRef, placeServices, input,
              suggestions, timers, predictInFlight, issued, newestResolved,
              detailsInFlight, detailsIssued, cbLog, address, raised, mounted, lastOp>>

changeVars == <<inputChanges, changedSinceRequest>>

histVars == <<sinceCall, burstReqs, runReqs, runCalls, runValid, changeVars>>

mapVars == <<mComponents, mMapping, mResult, mResultJsx, mpc>>

otherVars == <<oLive, oScript, oRef>>

vars == <<hookVars, histVars, mapVars, otherVars>>

----------------------------------------------------------------------------
(* The hook: pieces of the code *)

\* mutant: the timer is scheduled without the debounce delay
NewTimerNoDelay(text, services) ==
  [remaining |-> 0, input |-> text, placeServices |-> services]

\* the timer the effect of a render schedules: setTimeout(callback, debounce)
\* with the input and placeServices of that render in the callback's closure
NewTimer(text, services) ==
  [remaining |-> DebounceTicks, input |-> text, placeServices |-> services]

\* mutant: the cleanup does not cancel the timer
ClearTimeoutNever(ts, text) == ts

\* the effect's cleanup, clearTimeout(timeout): cancels the timer scheduled
\* by the effect run of the render whose input was text
ClearTimeout(ts, text) == {t \in ts : t.input # text}

\* mutant: the timer callback does not check placeServices
ShouldPredictNotReady(t) == Len(t.input) > minLength

\* mutant: the length gate is >=
ShouldPredictGE(t) == t.placeServices # Null /\ Len(t.input) >= minLength

\* the condition of the timer callback: placeServices && input.length > minLength
ShouldPredict(t) == t.placeServices # Null /\ Len(t.input) > minLength

\* mutant: the timer callback clears the list when it issues no request
SuggestionsAfterFireCleared(t) == IF ShouldPredict(t) THEN suggestions ELSE <<>>

\* the suggestions after the timer callback: it never calls setSuggestions
SuggestionsAfterFire(t) == suggestions

\* mutant: the mapped results are appended to the list displayed
MapResultsAppended(results) ==
  suggestions \o [i \in 1..Len(results) |->
                   [placeId |-> results[i].place_id, description |-> results[i].description]]

\* results.map(result => ({placeId: result.place_id, description: result.description}))
MapResults(results) ==
  [i \in 1..Len(results) |->
     [placeId |-> results[i].place_id, description |-> results[i].description]]

\* mutant: processResults does not compare the status
AcceptsAnyStatus(services, status) == services # Null

\* the condition of processResults: placeServices && placeServices.statusOK === status
Accepts(services, status) == services # Null /\ services.statusOK = status

\* mutant: getPlace always returns at its first line
GetPlaceProceedsNever(services) == FALSE

\* mutant: getPlace does not check placeServices
GetPlaceProceedsAlways(services) == TRUE

\* getPlace goes on to getDetails: not (!placeServices)
GetPlaceProceeds(services) == services # Null

\* mutant: the init effect does not look at the key
InitEffectRunsAlways(k) == TRUE

\* the init effect goes past its first line: not (!key)
InitEffectRuns(k) == k # ""

\* the mapping option the App passes
mapping == addressFieldsMapping

\* convertPlaceToAddress = mappingPlaceToAddress(mapping)
convertPlaceToAddress(place) == mappingPlaceToAddress(mapping, place)

----------------------------------------------------------------------------
(* The state after the component mounted: the first render read a null ref,
   then the init effect and the debounce effect ran *)

HookInit ==
  /\ key \in Keys
  /\ minLength \in 0..MaxMinLength
  /\ google \in BOOLEAN
  /\ script = IF InitEffectRuns(key) /\ ~google THEN "loading" ELSE "none"
  /\ serviceRef = IF InitEffectRuns(key) /\ google THEN Services ELSE Null
  /\ placeServices = Null
  /\ input = <<>>
  /\ suggestions = <<>>
  /\ timers = {NewTimer(<<>>, Null)}
  /\ predictInFlight = {}
  /\ issued = 0
  /\ newestResolved = 0
  /\ detailsInFlight = {}
  /\ detailsIssued = 0
  /\ cbLog = <<>>
  /\ address = InitialAddress
  /\ raised = FALSE
  /\ mounted = TRUE
  /\ lastOp = "mount"

HistInit ==
  /\ sinceCall = DebounceTicks
  /\ burstReqs = 0
  /\ runReqs = 0
  /\ runCalls = 0
  /\ runValid = FALSE
  /\ inputChanges = 0
  /\ changedSinceRequest = FALSE

MapOff ==
  /\ mComponents = <<>>
  /\ mMapping = addressFieldsMapping
  /\ mResult = EmptyObject
  /\ mResultJsx = EmptyObject
  /\ mpc = "off"

\* no further instance of the hook has mounted
OthersInit ==
  /\ oLive = [i \in OtherInstances |-> "new"]
  /\ oScript = [i \in OtherInstances |-> "none"]
  /\ oRef = [i \in OtherInstances |-> Null]

Init == HookInit /\ HistInit /\ MapOff /\ OthersInit

----------------------------------------------------------------------------
(* The hook: handlers, on the hook's own variables *)

\* the load event of the script: initService, when the listener is still
\* registered (the cleanup of the init effect removes it on unmount)
ScriptLoadStep ==
  /\ script = "loading"
  /\ script' = "loaded"
  /\ google' = TRUE
  /\ serviceRef' = IF mounted THEN Services ELSE serviceRef
  /\ lastOp' = "scriptLoad"
  /\ UNCHANGED <<key, minLength, placeServices, input, suggestions, timers,
                 predictInFlight, issued, newestResolved, detailsInFlight,
                 detailsIssued, cbLog, address, raised, mounted>>

\* setInput(text): a state update to the same text bails out (no render, no
\* effect); otherwise the hook renders with the new input, and the effect
\* cleans up the previous timer and schedules a new one
SetInputStep(text) ==
  /\ mounted
  /\ IF text = input
     THEN UNCHANGED <<input, placeServices, timers>>
     ELSE /\ input' = text
          /\ placeServices' = serviceRef
          /\ timers' = ClearTimeout(timers, input) \cup {NewTimer(text, serviceRef)}
  /\ lastOp' = "setInput"
  /\ UNCHANGED <<key, minLength, google, script, serviceRef, suggestions,
                 predictInFlight, issued, newestResolved, detailsInFlight,
                 detailsIssued, cbLog, address, raised, mounted>>

\* one tick of the clock
TickStep ==
  /\ timers' = {[t EXCEPT !.remaining = IF @ > 0 THEN @ - 1 ELSE 0] : t \in timers}
  /\ lastOp' = "tick"
  /\ UNCHANGED <<key, minLength, google, script, serviceRef, placeServices, input,
                 suggestions, predictInFlight, issued, newestResolved,
                 detailsInFlight, detailsIssued, cbLog, address, raised, mounted>>

\* the timer callback of timer t runs
TimerFireStep(t) ==
  /\ t \in timers
  /\ t.remaining = 0
  /\ timers' = timers \ {t}
  /\ IF ShouldPredict(t)
     THEN /\ issued < MaxRequests
          /\ issued' = issued + 1
          /\ predictInFlight' = predictInFlight \cup
               {[seq |-> issued + 1, input |-> t.input, placeServices |-> t.placeServices]}
     ELSE UNCHANGED <<issued, predictInFlight>>
  /\ suggestions' = SuggestionsAfterFire(t)
  /\ lastOp' = "timerFire"
  /\ UNCHANGED <<key, minLength, google, script, serviceRef, placeServices, input,
                 newestResolved, detailsInFlight, detailsIssued, cbLog, address,
                 raised, mounted>>

\* the callback of request r runs: processResults(results, status) of the
\* render that issued r; setSuggestions renders the hook again (a state
\* update of an unmounted component is dropped)
PredictResponseStep(r, results, status) ==
  /\ r \in predictInFlight
  /\ predictInFlight' = predictInFlight \ {r}
  /\ IF Accepts(r.placeServices, status) /\ mounted
     THEN /\ suggestions' = MapResults(results)
          /\ placeServices' = serviceRef
     ELSE UNCHANGED <<suggestions, placeServices>>
  /\ newestResolved' = IF status = StatusOK /\ r.seq > newestResolved
                       THEN r.seq ELSE newestResolved
  /\ lastOp' = "predictResponse"
  /\ UNCHANGED <<key, minLength, google, script, serviceRef, input, timers, issued,
                 detailsInFlight, detailsIssued, cbLog, address, raised, mounted>>

\* getPlace(placeId) of the latest render
GetPlaceStep(placeId) ==
  /\ mounted
  /\ IF GetPlaceProceeds(placeServices)
     THEN /\ detailsIssued < MaxDetails
          /\ detailsIssued' = detailsIssued + 1
          /\ detailsInFlight' = detailsInFlight \cup
               {[n |-> detailsIssued + 1, placeId |-> placeId]}
     ELSE UNCHANGED <<detailsIssued, detailsInFlight>>
  /\ lastOp' = "getPlace"
  /\ UNCHANGED <<key, minLength, google, script, serviceRef, placeServices, input,
                 suggestions, timers, predictInFlight, issued, newestResolved,
                 cbLog, address, raised, mounted>>

\* the callback of getDetails call d runs with (place, status): it reads
\* place.address_components (a TypeError when place is null, and in the
\* reduce when the record has no address_components), then calls cb; the
\* cb of the App dispatches to its reducer, which renders App and the hook
DetailsResponseStep(d, place, status) ==
  /\ d \in detailsInFlight
  /\ detailsInFlight' = detailsInFlight \ {d}
  /\ IF HasComponents(place)
     THEN /\ cbLog' = Append(cbLog, [status |-> status,
                                     address |-> convertPlaceToAddress(place)])
          /\ IF mounted
             THEN /\ address' = updateAddress(address, convertPlaceToAddress(place))
                  /\ placeServices' = serviceRef
             ELSE UNCHANGED <<address, placeServices>>
          /\ UNCHANGED raised
     ELSE /\ raised' = TRUE
          /\ UNCHANGED <<cbLog, address, placeServices>>
  /\ lastOp' = "detailsResponse"
  /\ UNCHANGED <<key, minLength, google, script, serviceRef, input, suggestions,
                 timers, predictInFlight, issued, newestResolved, detailsIssued,
                 mounted>>

\* the component unmounts: the cleanups of both effects run
UnmountStep ==
  /\ mounted
  /\ mounted' = FALSE
  /\ timers' = ClearTimeout(timers, input)
  /\ lastOp' = "unmount"
  /\ UNCHANGED <<key, minLength, google, script, serviceRef, placeServices, input,
                 suggestions, predictInFlight, issued, newestResolved,
                 detailsInFlight, detailsIssued, cbLog, address, raised>>

----------------------------------------------------------------------------
(* The specification of the hook *)

ScriptLoad == ScriptLoadStep /\ UNCHANGED <<histVars, mapVars, otherVars>>

SetInput == \E text \in Texts : SetInputStep(text) /\ UNCHANGED <<histVars, mapVars, otherVars>>

Tick ==
  /\ \E t \in timers : t.remaining > 0
  /\ TickStep
  /\ UNCHANGED <<histVars, mapVars, otherVars>>

TimerFire == \E t \in timers : TimerFireStep(t) /\ UNCHANGED <<histVars, mapVars, otherVars>>

PredictResponse ==
  \E r \in predictInFlight, results \in ResultLists, status \in Statuses :
    PredictResponseStep(r, results, status) /\ UNCHANGED <<histVars, mapVars, otherVars>>

GetPlace == \E placeId \in PlaceIds : GetPlaceStep(placeId) /\ UNCHANGED <<histVars, mapVars, otherVars>>

DetailsResponse ==
  \E d \in detailsInFlight, place \in DetailsPlaces, status \in Statuses :
    DetailsResponseStep(d, place, status) /\ UNCHANGED <<histVars, mapVars, otherVars>>

Unmount == UnmountStep /\ UNCHANGED <<histVars, mapVars, otherVars>>

Next ==
  \/ ScriptLoad
  \/ SetInput
  \/ Tick
  \/ TimerFire
  \/ PredictResponse
  \/ GetPlace
  \/ DetailsResponse
  \/ Unmount

Spec == Init /\ [][Next]_vars

----------------------------------------------------------------------------
(* The query handlers alone.  getPlace and the details callback write none
   of the variables the query handlers read: the timer closure takes
   placeServices from the render of its own setInput. *)

QueryNext ==
  \/ ScriptLoad
  \/ SetInput
  \/ Tick
  \/ TimerFire
  \/ PredictResponse
  \/ Unmount

QuerySpec == Init /\ [][QueryNext]_vars

(* The selection handlers alone, with the renders setInput causes.  A render
   caused by an accepted predict response reads the same ref as one caused
   by setInput. *)

SelectNext ==
  \/ ScriptLoad
  \/ SetInput
  \/ GetPlace
  \/ DetailsResponse
  \/ Unmount

SelectSpec == Init /\ [][SelectNext]_vars

(* All the handlers, with at most MaxCalls calls of the adapter in a
   behaviour: the two kinds of call share the budget. *)

HTimerFire ==
  \E t \in timers :
    /\ TimerFireStep(t)
    /\ issued' # issued => issued + detailsIssued < MaxCalls
    /\ UNCHANGED <<histVars, mapVars, otherVars>>

HGetPlace ==
  \E placeId \in PlaceIds :
    /\ GetPlaceStep(placeId)
    /\ detailsIssued' # detailsIssued => issued + detailsIssued < MaxCalls
    /\ UNCHANGED <<histVars, mapVars, otherVars>>

HookNext ==
  \/ ScriptLoad
  \/ SetInput
  \/ Tick
  \/ HTimerFire
  \/ PredictResponse
  \/ HGetPlace
  \/ DetailsResponse
  \/ Unmount

HookSpec == Init /\ [][HookNext]_vars

(* The handlers that run between two requests, within the budget of
   MaxCalls, with the history of the input changes: the setInput calls that
   changed the input are counted, and a flag tells whether one occurred
   since the latest request.  The getDetails calls are left pending: their
   callback writes neither the timers nor the requests. *)

CSetInput ==
  \E text \in Texts :
    /\ SetInputStep(text)
    /\ inputChanges' = IF text # input /\ inputChanges < MaxRequests
                       THEN inputChanges + 1 ELSE inputChanges
    /\ changedSinceRequest' = (changedSinceRequest \/ text # input)
    /\ UNCHANGED <<sinceCall, burstReqs, runReqs, runCalls, runValid, mapVars, otherVars>>

CTimerFire ==
  \E t \in timers :
    /\ TimerFireStep(t)
    /\ issued' # issued => issued + detailsIssued < MaxCalls
    /\ changedSinceRequest' = IF issued' # issued THEN FALSE ELSE changedSinceRequest
    /\ UNCHANGED <<inputChanges, sinceCall, burstReqs, runReqs, runCalls, runValid,
                   mapVars, otherVars>>

ChangeNext ==
  \/ ScriptLoad
  \/ CSetInput
  \/ Tick
  \/ CTimerFire
  \/ PredictResponse
  \/ HGetPlace
  \/ Unmount

ChangeSpec == Init /\ [][ChangeNext]_vars

----------------------------------------------------------------------------
(* Several instances of the hook on one page, all with the same key and
   language: window.google and the body the scripts are appended to belong
   to the page, serviceRef and the script element to each instance.  The
   instance of the hook variables has mounted; the others mount, load and
   unmount in any order. *)

\* instance i mounts: the init effect of its useInitPlaceServices runs
OMountStep(i) ==
  /\ oLive[i] = "new"
  /\ oLive' = [oLive EXCEPT ![i] = "mounted"]
  /\ oScript' = [oScript EXCEPT ![i] = IF InitEffectRuns(key) /\ ~google
                                       THEN "loading" ELSE "none"]
  /\ oRef' = [oRef EXCEPT ![i] = IF InitEffectRuns(key) /\ google
                                 THEN Services ELSE Null]
  /\ UNCHANGED hookVars

\* the load event of the script of instance i: the library defines
\* window.google, and initService runs when the listener is still
\* registered
OScriptLoadStep(i) ==
  /\ oScript[i] = "loading"
  /\ oScript' = [oScript EXCEPT ![i] = "loaded"]
  /\ google' = TRUE
  /\ oRef' = [oRef EXCEPT ![i] = IF oLive[i] = "mounted" THEN Services ELSE @]
  /\ UNCHANGED <<oLive, key, minLength, script, serviceRef, placeServices, input,
                 suggestions, timers, predictInFlight, issued, newestResolved,
                 detailsInFlight, detailsIssued, cbLog, address, raised, mounted,
                 lastOp>>

\* instance i unmounts: the cleanup removes the load listener
OUnmountStep(i) ==
  /\ oLive[i] = "mounted"
  /\ oLive' = [oLive EXCEPT ![i] = "unmounted"]
  /\ UNCHANGED <<oScript, oRef, hookVars>>

OMount == \E i \in OtherInstances : OMountStep(i) /\ UNCHANGED <<histVars, mapVars>>

OScriptLoad == \E i \in OtherInstances : OScriptLoadStep(i) /\ UNCHANGED <<histVars, mapVars>>

OUnmount == \E i \in OtherInstances : OUnmountStep(i) /\ UNCHANGED <<histVars, mapVars>>

InstancesNext ==
  \/ ScriptLoad
  \/ Unmount
  \/ OMount
  \/ OScriptLoad
  \/ OUnmount

InstancesSpec == Init /\ [][InstancesNext]_vars

----------------------------------------------------------------------------
(* The handlers that decide when a request is issued, with the history of
   the setInput calls.  A burst is a maximal sequence of setInput calls each
   less than DebounceTicks after the previous one; a run is a maximal part
   of a burst in which every call changes the input.  The responses are left
   pending: they change neither the input nor the timers, and so every
   issued request stays in predictInFlight. *)

Capped(n) == IF n < 2 THEN n + 1 ELSE 2

DScriptLoad == ScriptLoadStep /\ UNCHANGED <<histVars, mapVars, otherVars>>

DSetInput ==
  \E text \in Texts :
    /\ SetInputStep(text)
    /\ sinceCall' = 0
    /\ burstReqs' = IF sinceCall < DebounceTicks THEN burstReqs ELSE 0
    /\ runValid' = (text # input)
    /\ IF text # input /\ (sinceCall >= DebounceTicks \/ ~runValid)
       THEN runReqs' = 0 /\ runCalls' = 1
       ELSE runReqs' = runReqs /\ runCalls' = IF text # input THEN Capped(runCalls) ELSE runCalls
    /\ UNCHANGED <<changeVars, mapVars, otherVars>>

DTick ==
  /\ (\E t \in timers : t.remaining > 0) \/ sinceCall < DebounceTicks
  /\ TickStep
  /\ sinceCall' = IF sinceCall < DebounceTicks THEN sinceCall + 1 ELSE sinceCall
  /\ UNCHANGED <<burstReqs, runReqs, runCalls, runValid, changeVars, mapVars, otherVars>>

DTimerFire ==
  \E t \in timers :
    /\ TimerFireStep(t)
    /\ IF issued' # issued
       THEN /\ burstReqs' = Capped(burstReqs)
            /\ runReqs' = Capped(runReqs)
       ELSE UNCHANGED <<burstReqs, runReqs>>
    /\ UNCHANGED <<sinceCall, runCalls, runValid, changeVars, mapVars, otherVars>>

DUnmount == UnmountStep /\ UNCHANGED <<histVars, mapVars, otherVars>>

DebounceNext ==
  \/ DScriptLoad
  \/ DSetInput
  \/ DTick
  \/ DTimerFire
  \/ DUnmount

\* the query text of the request issued last
LatestRequestText == (CHOOSE r \in predictInFlight : r.seq = issued).input

DebounceSpec == Init /\ [][DebounceNext]_vars

----------------------------------------------------------------------------
(* The mappers on their own: the component list and the mapping are drawn,
   then the mappers are applied. *)

MapInit ==
  /\ HookInit /\ key = "KEY" /\ minLength = 0 /\ ~google
  /\ HistInit
  /\ OthersInit
  /\ mComponents \in ComponentLists
  /\ mMapping \in Mappings
  /\ mResult = EmptyObject
  /\ mResultJsx = EmptyObject
  /\ mpc = "start"

MapApply ==
  /\ mpc = "start"
  /\ mResult' = mappingPlaceToAddress(mMapping, [address_components |-> mComponents])
  /\ mResultJsx' = convertPlaceToAddressJsx([address_components |-> mComponents])
  /\ mpc' = "done"
  /\ UNCHANGED <<mComponents, mMapping, hookVars, histVars, otherVars>>

MapNext == MapApply

MapSpec == MapInit /\ [][MapNext]_vars

----------------------------------------------------------------------------
(* Properties *)

\* the requests whose callback runs in this step
Resolved(r) == r \in predictInFlight /\ r \notin predictInFlight'

\* the requests issued in this step
IssuedNow == predictInFlight' \ predictInFlight

\* C1: the suggestion list is that of the most recently issued request
\* among the resolved ones: the response of a request issued before one
\* that has already resolved with success leaves the list as it is
(* checked under QuerySpec *)
C1_StaleResponseKeepsList ==
  [][\A r \in predictInFlight :
       (Resolved(r) /\ r.seq < newestResolved) => suggestions' = suggestions]_vars

\* C2: a response replaces the suggestion list only if the query text of
\* its request equals the input at the moment it arrives
(* checked under QuerySpec *)
C2_ResponseForOtherTextDiscarded ==
  [][\A r \in predictInFlight :
       (Resolved(r) /\ r.input # input) => suggestions' = suggestions]_vars

\* C3 as stated: in a burst of setInput calls, each less than the debounce
\* time after the previous one, at most one request is issued, and once the
\* burst is over its text is that of the last call
(* checked under DebounceSpec *)
C3_OneRequestPerBurst ==
  /\ burstReqs <= 1
  /\ (burstReqs = 1 /\ sinceCall = DebounceTicks) => LatestRequestText = input

\* C3 amended: in a run of setInput calls, each changing the input and each
\* less than the debounce time after the previous one, at most one request
\* is issued, and its text is that of the last call of the run
(* checked under DebounceSpec *)
C3_OneRequestPerRun ==
  runValid => /\ runReqs <= 1
              /\ runReqs = 1 => LatestRequestText = input

\* a run of two calls or more, for which one request was issued
C3_Witness == runValid /\ runCalls = 2 /\ runReqs = 1

\* C4: every request issued has a query text longer than minLength
(* checked under QuerySpec *)
C4_IssuedLongerThanMinLength ==
  [][\A r \in IssuedNow : Len(r.input) > minLength]_vars

\* a request for minLength + 1 characters is pending, and it is the only
\* one issued although the timer then fired, with placeServices set, for an
\* input of exactly minLength > 0 characters
C4_Witness ==
  /\ lastOp = "timerFire" /\ placeServices # Null /\ timers = {}
  /\ Len(input) = minLength /\ minLength > 0
  /\ issued = 1
  /\ \E r \in predictInFlight : Len(r.input) = minLength + 1

\* C5: a timer firing while the input is longer than minLength and the
\* adapter is ready issues a request for the input
(* checked under QuerySpec *)
C5_FireWhenReadyIssues ==
  [][(lastOp' = "timerFire" /\ Len(input) > minLength /\ serviceRef # Null)
       => \E r \in IssuedNow : r.input = input]_vars

\* C6: the result of the mapper has every target field of the mapping, the
\* empty string for those no component maps to; with the mapping of the App
\* its keys are the five address fields
(* checked under MapSpec *)
C6_ResultHasEveryTargetField ==
  mpc = "done" =>
    /\ \A f \in TargetFields(mMapping) :
         /\ f \in DOMAIN mResult
         /\ (\A i \in 1..Len(mComponents) :
               \/ Len(mComponents[i].types) = 0
               \/ mComponents[i].types[1] \notin DOMAIN mMapping
               \/ mMapping[mComponents[i].types[1]].resultField # f)
              => mResult[f] = ""
    /\ mMapping = addressFieldsMapping => DOMAIN mResult = AddressFields

\* the components of list cs whose first type label the mapping sends to
\* field f
MappedTo(cs, m, f) ==
  {i \in 1..Len(cs) : /\ Len(cs[i].types) > 0
                      /\ cs[i].types[1] \in DOMAIN m
                      /\ m[cs[i].types[1]].resultField = f}

\* the value of component c in the form the mapping configures for its
\* first type label
ConfiguredValue(c, m) ==
  IF m[c.types[1]].nameForm = "short_name" THEN c.short_name ELSE c.long_name

\* C7: only the first type label of a component is looked up: a field holds
\* the value, in the configured form, of a component whose first label maps
\* to it, and a field no first label maps to is not written
(* checked under MapSpec *)
C7_OnlyFirstLabelCounts ==
  mpc = "done" =>
    /\ \A f \in TargetFields(mMapping) :
         IF MappedTo(mComponents, mMapping, f) = {}
         THEN f \notin DOMAIN mResult
         ELSE /\ f \in DOMAIN mResult
              /\ \E i \in MappedTo(mComponents, mMapping, f) :
                   mResult[f] = ConfiguredValue(mComponents[i], mMapping)
    /\ DOMAIN mResult \subseteq TargetFields(mMapping)
    /\ \A f \in AddressFields :
         IF MappedTo(mComponents, addressFieldsMapping, f) = {}
         THEN mResultJsx[f] = ""
         ELSE \E i \in MappedTo(mComponents, addressFieldsMapping, f) :
                mResultJsx[f] = ConfiguredValue(mComponents[i], addressFieldsMapping)

\* a list with a component whose first label is unmapped and whose second
\* is mapped, and a component whose first label is mapped
C7_Witness ==
  /\ mpc = "done"
  /\ \E i \in 1..Len(mComponents) :
       /\ Len(mComponents[i].types) = 2
       /\ mComponents[i].types[1] \notin DOMAIN mMapping
       /\ mComponents[i].types[2] \in DOMAIN mMapping
       /\ mMapping[mComponents[i].types[2]].resultField \notin DOMAIN mResult
  /\ DOMAIN mResult # {}

\* C8: getPlace called while the adapter is not ready issues no getDetails
\* call and invokes the consumer at no time: the call changes nothing, and
\* the consumer is invoked only by the callback of an issued call
(* checked under SelectSpec *)
C8_GetPlaceNotReadyDoesNothing ==
  [][/\ (lastOp' = "getPlace" /\ serviceRef = Null)
          => UNCHANGED <<detailsInFlight, detailsIssued, cbLog, address>>
     /\ cbLog' # cbLog => \E d \in detailsInFlight : d \notin detailsInFlight']_vars

\* getPlace was called while the adapter was not ready
C8_Witness == lastOp = "getPlace" /\ serviceRef = Null /\ key # ""

\* C9: the consumer is invoked only for details responses with the success
\* status
(* checked under SelectSpec *)
C9_ConsumerOnlyOnSuccess ==
  \A i \in 1..Len(cbLog) : cbLog[i].status = StatusOK

\* C10: a timer fire that issues no request leaves the suggestion list as it
\* was
(* checked under QuerySpec *)
C10_FireWithoutRequestKeepsList ==
  [][(lastOp' = "timerFire" /\ IssuedNow = {}) => suggestions' = suggestions]_vars

\* a non-empty list is displayed after the timer fired for an input
\* shortened to minLength characters or fewer
C10_Witness ==
  /\ lastOp = "timerFire" /\ mounted
  /\ suggestions # <<>>
  /\ Len(input) <= minLength

\* C11: a predict response whose status is not the success status leaves
\* the suggestion list and the input as they were, whatever results it
\* carries
(* checked under QuerySpec *)
C11_FailedResponseKeepsState ==
  [][\A r \in predictInFlight, results \in ResultLists,
        status \in Statuses \ {StatusOK} :
       PredictResponseStep(r, results, status)
         => suggestions' = suggestions /\ input' = input]_vars

\* the callback of a request ran, for an input long enough and with
\* placeServices set, and no request has had a success response
C11_Witness ==
  /\ lastOp = "predictResponse" /\ mounted
  /\ newestResolved = 0
  /\ placeServices # Null /\ Len(input) > minLength
  /\ predictInFlight = {} /\ issued = 1

\* C12: with an empty key the adapter is never initialized: whatever
\* setInput and getPlace calls are made, the hook is never ready, no script
\* load is started, no getPlacePredictions or getDetails call is issued,
\* the suggestion list stays empty and the consumer is never invoked
(* checked under HookSpec *)
C12_NoKeyNeverInitializes ==
  key = "" =>
    /\ serviceRef = Null /\ placeServices = Null
    /\ script = "none"
    /\ issued = 0 /\ predictInFlight = {}
    /\ detailsIssued = 0 /\ detailsInFlight = {}
    /\ suggestions = <<>>
    /\ cbLog = <<>>

\* with an empty key, and the library already on the page, the timer fired
\* for an input longer than minLength and then getPlace was called
C12_Witness ==
  /\ key = "" /\ google
  /\ lastOp = "getPlace"
  /\ Len(input) > minLength /\ timers = {}

\* C13: as long as the script has not loaded (a load that fails never
\* does) the hook is not ready, and setInput, the timer callback and
\* getPlace issue no getPlacePredictions or getDetails call and raise no
\* error
(* checked under HookSpec *)
C13_LoadNotCompletedNoRequests ==
  script = "loading" =>
    /\ serviceRef = Null /\ placeServices = Null
    /\ issued = 0 /\ predictInFlight = {}
    /\ detailsIssued = 0 /\ detailsInFlight = {}
    /\ ~raised

\* the script is still loading after the timer fired for an input longer
\* than minLength and getPlace was called
C13_Witness ==
  /\ script = "loading" /\ mounted
  /\ lastOp = "getPlace"
  /\ input # <<>> /\ Len(input) > minLength /\ timers = {}

\* C14: no handler ends in an error, whatever the adapter answers: a
\* getDetails callback given no place record, or a record without
\* address components, returns without raising
(* checked under SelectSpec *)
C14_NoHandlerRaises == ~raised

\* C15: at most one debounce timer is pending, and it is the timer of the
\* current input: the timer a setInput call replaced has been cancelled and
\* cannot fire
(* checked under DebounceSpec *)
C15_AtMostOneTimerPending ==
  /\ Cardinality(timers) <= 1
  /\ \A t \in timers : t.input = input

\* a setInput call has just replaced the timer of the previous call, which
\* had not fired
C15_Witness ==
  /\ lastOp = "setInput" /\ runValid /\ runCalls = 2 /\ runReqs = 0
  /\ \E t \in timers : t.remaining = DebounceTicks

\* C16 as stated: every setInput call, one with the current text included,
\* leaves a timer pending that has the whole debounce time to run; a timer
\* fire leaves no timer pending; no timer is pending before the first
\* setInput call
(* checked under DebounceSpec *)
C16_EverySetInputRestartsTimer ==
  [][/\ lastOp' = "setInput"
          => \E t \in timers' : t.remaining = DebounceTicks /\ t.input = input'
     /\ lastOp' = "timerFire" => timers' = {}
     /\ lastOp = "mount" => timers = {}]_vars

\* C16 amended: a setInput call that changes the input leaves exactly one
\* timer pending, for the new input and with the whole debounce time to run;
\* a call with the current text leaves the timers as they were; a timer
\* fires only when its time has run out, and leaves no timer pending; after
\* mount the timer of the empty input is pending
(* checked under DebounceSpec *)
C16_ChangingSetInputRestartsTimer ==
  [][/\ (lastOp' = "setInput" /\ input' # input)
          => /\ Cardinality(timers') = 1
             /\ \A t \in timers' : t.remaining = DebounceTicks /\ t.input = input'
     /\ (lastOp' = "setInput" /\ input' = input) => timers' = timers
     /\ lastOp' = "timerFire"
          => /\ timers # {} /\ timers' = {}
             /\ \A t \in timers : t.remaining = 0
     /\ lastOp = "mount"
          => /\ Cardinality(timers) = 1
             /\ \A t \in timers : t.remaining = DebounceTicks /\ t.input = <<>>]_vars

\* a setInput call changed the input after the timer of the previous input
\* had fired and issued its request: no timer was pending at the call
C16_Witness ==
  /\ lastOp = "setInput" /\ runValid /\ sinceCall = 0
  /\ issued = 1 /\ burstReqs = 0
  /\ \E t \in timers : t.remaining = DebounceTicks

\* C17: unmounting cancels the pending timer: once the component is
\* unmounted no timer is pending, no timer callback runs and no request is
\* issued
(* checked under QuerySpec *)
C17_UnmountCancelsTimer ==
  [][~mounted' => /\ timers' = {}
                  /\ lastOp' # "timerFire"
                  /\ issued' = issued]_vars

\* the component unmounted while the timer of an input longer than
\* minLength, scheduled with placeServices set, had not fired
C17_Witness ==
  /\ lastOp = "unmount" /\ ~mounted
  /\ Len(input) > minLength /\ placeServices # Null /\ serviceRef # Null
  /\ issued = 0

\* C18: a timer that fires while the adapter is not ready issues no
\* request, and the text is not queued: requests are issued by timer
\* callbacks only, and no step but a setInput call schedules a timer, the
\* script load that makes the adapter ready included
(* checked under QuerySpec *)
C18_FireWhileNotReadyIgnored ==
  [][/\ (lastOp' = "timerFire" /\ serviceRef = Null) => IssuedNow = {}
     /\ IssuedNow # {} => lastOp' = "timerFire"
     /\ lastOp' # "setInput"
          => \A t \in timers' :
               \E u \in timers : u.input = t.input /\ u.placeServices = t.placeServices]_vars

\* the adapter became ready after the timer of an input longer than
\* minLength had fired, and no request has been issued
C18_Witness ==
  /\ lastOp = "scriptLoad" /\ mounted /\ serviceRef # Null
  /\ Len(input) > minLength /\ timers = {}
  /\ issued = 0

\* script elements appended to the page by the instances of the hook
LoadsStarted ==
  (IF script # "none" THEN 1 ELSE 0)
  + Cardinality({i \in OtherInstances : oScript[i] # "none"})

\* calls of initService, each constructing an AutocompleteService and a
\* PlacesService
ServicesConstructed ==
  (IF serviceRef # Null THEN 1 ELSE 0)
  + Cardinality({i \in OtherInstances : oRef[i] # Null})

\* C19: with several instances of the hook on a page, all with the same
\* key and language, the library load is started at most once and the
\* services are constructed at most once
(* checked under InstancesSpec *)
C19_InitializedAtMostOnce ==
  /\ LoadsStarted <= 1
  /\ ServicesConstructed <= 1

\* C20: the callback of a getDetails call invokes the consumer exactly
\* once, with the address the mapper gives for the components of the place,
\* when the response has the success status, and not at all otherwise; the
\* consumer is invoked by no other step
(* checked under SelectSpec *)
C20_ConsumerExactlyOnSuccess ==
  [][/\ \A d \in detailsInFlight, place \in DetailsPlaces, status \in Statuses :
          DetailsResponseStep(d, place, status)
            => IF status = StatusOK /\ HasComponents(place)
               THEN cbLog' = Append(cbLog, [status |-> StatusOK,
                                            address |-> convertPlaceToAddress(place)])
               ELSE cbLog' = cbLog
     /\ cbLog' # cbLog => lastOp' = "detailsResponse"]_vars

\* the last element of a non-empty set of list positions
LastOf(S) == CHOOSE i \in S : \A j \in S : j <= i

\* C21: when several components of a list map to one field, the field
\* holds the value of the last of them in list order, for the mapper of the
\* hook with either mapping and for the mapper of App.jsx
(* checked under MapSpec *)
C21_LastComponentWins ==
  mpc = "done" =>
    /\ \A f \in TargetFields(mMapping) :
         MappedTo(mComponents, mMapping, f) # {}
           => /\ f \in DOMAIN mResult
              /\ mResult[f] =
                   ConfiguredValue(mComponents[LastOf(MappedTo(mComponents, mMapping, f))],
                                   mMapping)
    /\ \A f \in AddressFields :
         MappedTo(mComponents, addressFieldsMapping, f) # {}
           => mResultJsx[f] =
                ConfiguredValue(
                  mComponents[LastOf(MappedTo(mComponents, addressFieldsMapping, f))],
                  addressFieldsMapping)

\* two components with different first labels map to one field with
\* different values, and the field holds the value of the second
C21_Witness ==
  /\ mpc = "done" /\ Len(mComponents) = 2
  /\ MappedTo(mComponents, mMapping, "house") = {1, 2}
  /\ mComponents[1].types[1] # mComponents[2].types[1]
  /\ ConfiguredValue(mComponents[1], mMapping) # ConfiguredValue(mComponents[2], mMapping)
  /\ mResult["house"] = ConfiguredValue(mComponents[2], mMapping)

\* C22: a predict response with the success status, handled while the
\* component is mounted, replaces the suggestion list: the new list has one
\* {placeId, description} pair for each raw result, in the order of the
\* results, and nothing of the list displayed before
(* checked under QuerySpec *)
C22_AcceptedResponseReplacesList ==
  [][\A r \in predictInFlight, results \in ResultLists :
       (PredictResponseStep(r, results, StatusOK) /\ r.placeServices # Null /\ mounted)
         => /\ Len(suggestions') = Len(results)
            /\ \A i \in 1..Len(results) :
                 /\ DOMAIN suggestions'[i] = {"placeId", "description"}
                 /\ suggestions'[i].placeId = results[i].place_id
                 /\ suggestions'[i].description = results[i].description]_vars

\* the only request issued had a success response with two results, which
\* are displayed
C22_Witness ==
  /\ lastOp = "predictResponse" /\ mounted
  /\ issued = 1 /\ newestResolved = 1 /\ predictInFlight = {}
  /\ Len(suggestions) = 2
  /\ suggestions[1].placeId = "p2" /\ suggestions[2].placeId = "p1"

\* C23: the input is the text of the latest setInput call (empty before
\* the first) and no other step changes it; the suggestion list is changed
\* by the callback of a predict request only, not by setInput, a timer
\* callback, getPlace or a details callback
(* checked under HookSpec *)
C23_StateChangedByItsOperationsOnly ==
  [][/\ \A text \in Texts : SetInputStep(text) => input' = text
     /\ lastOp' # "setInput" => input' = input
     /\ lastOp' # "predictResponse" => suggestions' = suggestions
     /\ lastOp = "mount" => input = <<>>]_vars

\* a details callback has just invoked the consumer while a non-empty list
\* is displayed for a non-empty input
C23_Witness ==
  /\ lastOp = "detailsResponse" /\ mounted
  /\ cbLog # <<>>
  /\ suggestions # <<>> /\ input # <<>>

\* C24: whenever the suggestion list is not empty, initService has run and
\* the placeServices of the latest render is set, so that getPlace, called
\* while a suggestion is displayed, issues a getDetails call
(* checked under HookSpec *)
C24_DisplayedSuggestionCanBeSelected ==
  [][/\ suggestions' # <<>> => serviceRef' # Null /\ placeServices' # Null
     /\ (lastOp' = "getPlace" /\ suggestions # <<>>)
          => /\ detailsIssued' = detailsIssued + 1
             /\ \E d \in detailsInFlight' : d \notin detailsInFlight]_vars

\* getPlace was called while a suggestion was displayed, and its getDetails
\* call is pending
C24_Witness ==
  /\ lastOp = "getPlace" /\ mounted
  /\ suggestions # <<>>
  /\ detailsIssued = 1 /\ detailsInFlight # {}

\* C25: a request is issued by a timer callback only, and only when a
\* setInput call has changed the input since the request before it (since
\* mount, for the first): the script load, a response and getPlace issue
\* none, and the requests issued never outnumber the input changes
(* checked under ChangeSpec *)
C25_RequestNeedsInputChange ==
  [][/\ IssuedNow # {} => /\ lastOp' = "timerFire"
                          /\ changedSinceRequest
                          /\ issued' = issued + 1
     /\ issued' <= inputChanges']_vars

\* one request was issued for two changes of the input, and no second one
\* since: its response arrived and getPlace was called
C25_Witness ==
  /\ lastOp = "getPlace" /\ mounted
  /\ issued = 1 /\ inputChanges = 2 /\ ~changedSinceRequest
  /\ predictInFlight = {} /\ timers = {}

\* the address of a place as a record of the five address fields: the
\* value the mapper gives for a field, the empty string for a field it does
\* not give
AddressOf(place) ==
  [f \in AddressFields |->
     IF f \in DOMAIN convertPlaceToAddress(place)
     THEN convertPlaceToAddress(place)[f] ELSE ""]

\* C26: the callback of each getDetails call invokes the consumer once,
\* when it runs and in whatever order the callbacks run, and the address the
\* App then holds is the address of the response that has just arrived
(* checked under SelectSpec *)
C26_LastArrivalDecidesAddress ==
  [][\A d \in detailsInFlight, place \in {PlaceA, PlaceB}, status \in Statuses :
       (DetailsResponseStep(d, place, status) /\ mounted)
         => /\ Len(cbLog') = Len(cbLog) + 1
            /\ address' = AddressOf(place)]_vars

\* C27: the App merges a delivered address into the one it holds: after a
\* details callback given a place record, every field a component of the
\* place maps to holds the value of that component (of the last such
\* component), and every other of the five fields keeps its value
(* checked under SelectSpec *)
C27_AddressMergedFieldByField ==
  [][\A d \in detailsInFlight, place \in {PlaceA, PlaceB}, status \in Statuses :
       (DetailsResponseStep(d, place, status) /\ mounted)
         => /\ DOMAIN address' = AddressFields
            /\ \A f \in AddressFields :
                 address'[f] =
                   IF MappedTo(place.address_components, addressFieldsMapping, f) = {}
                   THEN address[f]
                   ELSE ConfiguredValue(
                          place.address_components[
                            LastOf(MappedTo(place.address_components,
                                            addressFieldsMapping, f))],
                          addressFieldsMapping)]_vars

\* the address delivered last has no city, and the App holds its house
\* together with the city delivered before
C27_Witness ==
  /\ lastOp = "detailsResponse" /\ mounted
  /\ Len(cbLog) = 2
  /\ "city" \notin DOMAIN cbLog[2].address
  /\ address.house = "221B" /\ address.city = "London"

====
